---- MODULE Spec2Model ----
(***************************************************************************)
(* Ledger and bank-to-bank transfer engine of nele-bank.                   *)
(*                                                                         *)
(* Two deployments of the same code are modelled side by side: the local   *)
(* bank and one peer bank.  Each owns its accounts and its transaction     *)
(* rows.  Every request handler (createInternalTransfer,                   *)
(* createExternalTransfer, createSimplifiedTransfer,                       *)
(* processIncomingTransaction, updateAccountCurrency, createAccount,       *)
(* logout) is a process whose program counter                              *)
(* advances at each awaited database or network call, so                   *)
(* the interleavings TLC explores are the ones the Node event loop allows. *)
(* Answers of the central-bank registry, of a key-set endpoint, of the     *)
(* exchange-rate service and of the network are chosen by the environment. *)
(***************************************************************************)
EXTENDS Integers, Sequences, FiniteSets, TLC

\* ------------------------------------------------------------------ bounds
NSlots == 2          \* request handlers that may run (each slot is used once)
MaxInFlight == 2     \* request handlers that may be running at the same time
AmountStep == 60     \* granularity of the amounts users and peers submit
MaxAmountUnits == 1  \* amounts range over 0, AmountStep, .. , MaxAmountUnits*AmountStep

\* --------------------------------------------------------- program constants
SeedBalance == 100   \* initial balance of a new EUR account
Scale == 100         \* DECIMAL(15, 2): balances and amounts are held in hundredths

LocalBank == "300"   \* config.bank.prefix of the local deployment
PeerBank == "400"    \* config.bank.prefix of the peer deployment
Banks == {LocalBank, PeerBank}

Slots == 1..NSlots
Amounts == {k * AmountStep * Scale : k \in 0..MaxAmountUnits}

\* Accounts of both deployments; findByPk resolves an id inside its own bank.
\* The last one is the row createAccount inserts: it does not exist at first.
Accounts == 1..6
NewAccount == 6
NoAccount == 0
MissingId == 9   \* an id no account row has
bankOf == [a \in Accounts |-> IF a \in {4, 5} THEN PeerBank ELSE LocalBank]
InitCurrency == [a \in Accounts |-> IF a = NewAccount THEN ""
                                    ELSE IF a = 3 THEN "USD" ELSE "EUR"]

\* An account number is its bank prefix (the first three characters)
\* followed by the digits generateAccountNumber appends.
accountNumber == [a \in Accounts |-> <<bankOf[a], a>>]
UnknownNumber == <<LocalBank, 9>>
ToNumbers == {accountNumber[a] : a \in Accounts} \cup {UnknownNumber}

\* The requests users submit: source account ids, and the destinations
\* given to the outbound gateway (one at the local bank, one at the peer).
FromIds == {1, 3, MissingId}
ExternalTo == {accountNumber[2], accountNumber[4]}

\* A seed balance given to an account of any currency.
InitialBalanceAnyCurrency(cur) == SeedBalance * Scale

\* The users of a deployment and the user each account row belongs to.
Users == {1, 2}
ownerOf == [a \in Accounts |-> IF a \in {2, 5} THEN 2 ELSE 1]

\* The access tokens requests present: the subject, and whether jwt.verify
\* accepts the token (signature and expiry).
AccessTokens ==
  { [sub |-> 1, valid |-> TRUE], [sub |-> 2, valid |-> TRUE], [sub |-> 1, valid |-> FALSE] }
NoAccess == [sub |-> 0, valid |-> FALSE]

\* createAccount: 100 for an EUR account, 0 for any other currency.
InitialBalance(cur) == IF cur = "EUR" THEN SeedBalance * Scale ELSE 0

VARIABLES
  balance,    \* accounts.balance, per account
  currency,   \* accounts.currency, per account
  txs,        \* the transactions tables of both banks, in insertion order
  req,        \* the request handlers: position and local variables
  testMode,   \* process.env.TEST_MODE === 'true', per deployment
  blacklist   \* the tokens TokenBlacklistService holds, per deployment

vars == <<balance, currency, txs, req, testMode, blacklist>>

\* An account row exists once it has a currency.
Exists(a) == currency[a] # ""

\* Account.findOne({ where: { accountNumber } }) in the database of bank b.
FindByNumber(b, num) ==
  IF \E a \in Accounts : Exists(a) /\ bankOf[a] = b /\ accountNumber[a] = num
  THEN CHOOSE a \in Accounts : Exists(a) /\ bankOf[a] = b /\ accountNumber[a] = num
  ELSE NoAccount

\* Account.findByPk(id) in the database of bank b.
FindByPk(b, id) ==
  IF id \in Accounts /\ Exists(id) /\ bankOf[id] = b THEN id ELSE NoAccount

\* A signed assertion: header.kid, the key that made the signature, the
\* payload, and iat, the issue stamp jwt.sign adds (0 for assertions made
\* outside the two modelled banks, the sender's transaction otherwise).
NoToken == [kid |-> <<>>, signer |-> "", accountFrom |-> <<>>, accountTo |-> <<>>,
            amount |-> 0, currency |-> "", iat |-> 0]

\* A handler that has not been invoked.  snap is the value of
\* fromAccount.balance held by the in-memory model instance; applied is a
\* history field, the net change this handler has written so far to the
\* balance of its source account (transfers) or of its receiving account
\* (inbound); posts is a history field too, the number of axios.post calls
\* the handler has made to a destination bank; so is registry, what the
\* central bank's registry holds about the source bank of an inbound
\* assertion at the time the handler verifies that bank.  A currency change
\* keeps its account in from, the instance's balance and currency in snap
\* and cur, the requested currency in newCur, the rate it reports in rate,
\* the rate convertAmount fetched in used and the converted balance in newBal.
\* http is the status code the /transactions/b2b endpoint answers with.
\* lock says that the handler holds the database transaction of
\* updateBalances.  access is the bearer token of an API request and user
\* is req.user.id, set by the authenticate middleware.
IdleReq == [kind |-> "none", pc |-> "idle", bank |-> "", from |-> NoAccount,
            to |-> <<>>, amount |-> 0, snap |-> 0, cur |-> "", toAcc |-> NoAccount,
            tx |-> 0, err |-> "", token |-> NoToken, pubKey |-> "",
            verified |-> FALSE, caller |-> 0, resp |-> "", applied |-> 0, posts |-> 0,
            registry |-> "", newCur |-> "", rate |-> <<>>, used |-> <<>>, newBal |-> 0,
            http |-> 0, lock |-> FALSE, access |-> NoAccess, user |-> 0]

\* handleIncomingExternalTransfer of the controller: 200 with the result of
\* processIncomingTransaction, 400 with the message of whatever it threw.
InboundHttpStatus(e) == IF e = "" THEN 200 ELSE 400

\* createSimplifiedTransfer behind the authenticate middleware: the codes
\* of the rejections that precede the transfer processors.
SimplifiedHttpStatus(e) ==
  CASE e = "Unauthorized" -> 401
    [] e = "SourceNotFound" -> 404
    [] e = "Forbidden" -> 403
    [] OTHER -> 400

\* logout answers 200 whatever happened to the token.
LogoutHttpStatus(e) == 200

\* A handler that has returned or thrown keeps what callers and the audit
\* trail can still see: its kind, the source account and amount it was
\* called with, its transaction row, its error, the assertion it handled,
\* the answer it got from the destination bank and what it wrote and sent.
Finished(q, e) ==
  [IdleReq EXCEPT !.kind = q.kind, !.pc = "done", !.bank = q.bank, !.from = q.from,
                  !.amount = q.amount, !.tx = q.tx, !.err = e, !.token = q.token, !.pubKey = q.pubKey,
                  !.verified = q.verified, !.applied = q.applied, !.resp = q.resp,
                  !.posts = q.posts, !.registry = q.registry, !.newCur = q.newCur,
                  !.rate = q.rate, !.used = q.used, !.newBal = q.newBal,
                  !.access = q.access, !.user = q.user,
                  !.http = CASE q.kind = "inbound" -> InboundHttpStatus(e)
                             [] q.kind = "simplified" -> SimplifiedHttpStatus(e)
                             [] q.kind = "logout" -> LogoutHttpStatus(e)
                             [] OTHER -> 0]

Init ==
  /\ currency = InitCurrency
  /\ balance = [a \in Accounts |-> InitialBalance(InitCurrency[a])]
  /\ txs = <<>>
  /\ req = [r \in Slots |-> IdleReq]
  /\ testMode = [b \in Banks |-> FALSE]
  /\ blacklist = [b \in Banks |-> {}]

\* ------------------------------------------------------ transaction rows
\* Transaction.create with status PENDING.
NewTransaction(b, type, amt, cur, fromId, toId) ==
  [bank |-> b, transactionId |-> Len(txs) + 1, type |-> type, status |-> "pending",
   amount |-> amt, currency |-> cur, fromAccountId |-> fromId, toAccountId |-> toId,
   errorMessage |-> "", completedAt |-> FALSE]

\* transaction.status = COMPLETED; transaction.completedAt = new Date(); save()
SaveCompleted(i) == [txs EXCEPT ![i].status = "completed", ![i].completedAt = TRUE]

\* A failure recorded without its message.
SaveFailedNoMessage(i, msg) == [txs EXCEPT ![i].status = "failed"]

\* transaction.status = FAILED; transaction.errorMessage = msg; save()
SaveFailed(i, msg) == [txs EXCEPT ![i].status = "failed", ![i].errorMessage = msg]

\* ------------------------------------------------ user-submitted transfers
\* Handlers are interchangeable: a new request takes the first unused slot.
InFlight == {s \in Slots : req[s].kind # "none" /\ req[s].pc # "done"}

FreeSlot(r) ==
  /\ req[r].kind = "none"
  /\ \A s \in Slots : s < r => req[s].kind # "none"
  /\ Cardinality(InFlight) < MaxInFlight

\* The error class (utils/errors.ts) of each error the transfer handlers
\* throw; errors are named after their message.
ErrorClass(e) ==
  CASE e \in {"SourceNotFound", "DestinationNotFound"} -> "NotFoundError"
    [] e = "InsufficientFunds" -> "InsufficientFundsError"
    [] e \in {"AmountNotPositive", "CurrencyMismatch", "SameAccount"} -> "ValidationError"
    [] e \in {"BalanceUpdateFailed", "OwnBank", "RegistryFailed", "Inactive", "SignFailed",
              "SendFailed"} -> "TransactionError"
    [] OTHER -> "Error"

\* validateAccounts without the funds check.
ValidationResultNoFundsCheck(bal, amt) ==
  IF amt <= 0 THEN "AmountNotPositive" ELSE "ok"

\* validateAccounts without the check of the amount's sign.
ValidationResultNoAmountCheck(bal, amt) ==
  IF bal < amt THEN "InsufficientFunds" ELSE "ok"

\* validateAccounts: the checks, in the order the code makes them.
ValidationResult(bal, amt) ==
  IF bal < amt THEN "InsufficientFunds"
  ELSE IF amt <= 0 THEN "AmountNotPositive"
  ELSE "ok"

\* The handler q after validateAccounts: findByPk, then the checks; the
\* instance read here is the one the rest of the handler keeps using.
Validated(q) ==
  LET acc == FindByPk(q.bank, q.from) IN
  IF acc = NoAccount
  THEN Finished(q, "SourceNotFound")
  ELSE LET res == ValidationResult(balance[acc], q.amount) IN
       IF res # "ok"
       THEN Finished(q, res)
       ELSE [q EXCEPT !.snap = balance[acc], !.cur = currency[acc],
                      !.pc = IF q.kind = "internal" THEN "findTo" ELSE "create"]

\* validateAccounts as the first step of a transfer submitted to the local
\* bank through /transactions/internal or /transactions/external.
ValidateAccounts(r, kind, f, t, amt) ==
  /\ FreeSlot(r)
  /\ req' = [req EXCEPT ![r] = Validated([IdleReq EXCEPT !.kind = kind, !.bank = LocalBank,
                                                          !.from = f, !.to = t, !.amount = amt])]
  /\ UNCHANGED <<balance, currency, txs, testMode, blacklist>>

\* The amounts users submit: zero and a negative amount included.
SubmittedAmounts == Amounts \cup {-AmountStep * Scale}

\* A user submits an internal transfer: createInternalTransfer up to its
\* first await after validateAccounts.
StartInternal(r) ==
  \E f \in FromIds, t \in ToNumbers, amt \in SubmittedAmounts :
    ValidateAccounts(r, "internal", f, t, amt)

\* A user submits an external transfer: createExternalTransfer likewise.
StartExternal(r) ==
  \E f \in FromIds, t \in ExternalTo, amt \in SubmittedAmounts :
    ValidateAccounts(r, "external", f, t, amt)

\* The prefix createSimplifiedTransfer compares the destination with.
RoutingPrefix == "300"

\* createSimplifiedTransfer: accountTo.startsWith('300') chooses the processor.
RouteOf(toNum) == IF toNum[1] = RoutingPrefix THEN "internal" ELSE "external"

\* The requests users submit to createSimplifiedTransfer, at either
\* deployment: the bank, the source account number and the destination.
SimplifiedRequests ==
  { [bank |-> LocalBank, accountFrom |-> accountNumber[1], accountTo |-> accountNumber[2]],
    [bank |-> LocalBank, accountFrom |-> accountNumber[1], accountTo |-> accountNumber[4]],
    [bank |-> PeerBank, accountFrom |-> accountNumber[4], accountTo |-> accountNumber[5]],
    [bank |-> PeerBank, accountFrom |-> accountNumber[4], accountTo |-> accountNumber[1]],
    [bank |-> LocalBank, accountFrom |-> UnknownNumber, accountTo |-> accountNumber[2]] }

\* The authenticate middleware: verifyToken, then the user of decoded.sub
\* is loaded (every subject of AccessTokens is a user).  The blacklist is
\* not consulted.
AuthenticateResult(tok) ==
  IF ~tok.valid THEN "Unauthorized" ELSE "ok"

\* An ownership check that lets every user through.
verifyAccountOwnershipAnyUser(accountId, userId) == TRUE

\* verifyAccountOwnership: Account.findOne({ where: { id, userId } }).
verifyAccountOwnership(accountId, userId) == ownerOf[accountId] = userId

\* POST /transactions up to the routing decision: the authenticate
\* middleware (401), the source account looked up by its number (404) and
\* the ownership check (403).
StartSimplified(r) ==
  /\ FreeSlot(r)
  /\ \E s \in SimplifiedRequests, tok \in AccessTokens, amt \in Amounts \ {0} :
       LET acc == FindByNumber(s.bank, s.accountFrom)
           q == [IdleReq EXCEPT !.kind = "simplified", !.bank = s.bank, !.from = acc,
                                !.to = s.accountTo, !.amount = amt, !.access = tok]
           u == [q EXCEPT !.user = tok.sub]
       IN req' = [req EXCEPT ![r] =
                    IF AuthenticateResult(tok) # "ok"
                    THEN Finished(q, "Unauthorized")
                    ELSE IF acc = NoAccount THEN Finished(u, "SourceNotFound")
                    ELSE IF ~verifyAccountOwnership(acc, tok.sub) THEN Finished(u, "Forbidden")
                    ELSE [u EXCEPT !.pc = "route"]]
  /\ UNCHANGED <<balance, currency, txs, testMode, blacklist>>

\* createSimplifiedTransfer: the routing decision and the chosen
\* processor up to the end of its validateAccounts.
Route(r) ==
  LET q == req[r] IN
  /\ q.kind = "simplified"
  /\ q.pc = "route"
  /\ req' = [req EXCEPT ![r] = Validated([q EXCEPT !.kind = RouteOf(q.to)])]
  /\ UNCHANGED <<balance, currency, txs, testMode, blacklist>>

\* The destination checks without the currency comparison.
DestinationResultNoCurrencyCheck(fromId, fromCur, toId, toCur) ==
  IF toId = NoAccount THEN "DestinationNotFound"
  ELSE IF fromId = toId THEN "SameAccount"
  ELSE "ok"

\* createInternalTransfer: destination lookup, currency and same-account checks.
DestinationResult(fromId, fromCur, toId, toCur) ==
  IF toId = NoAccount THEN "DestinationNotFound"
  ELSE IF fromCur # toCur THEN "CurrencyMismatch"
  ELSE IF fromId = toId THEN "SameAccount"
  ELSE "ok"

FindDestination(r) ==
  LET q == req[r]
      dst == FindByNumber(q.bank, q.to)
      res == DestinationResult(q.from, q.cur, dst,
                               IF dst = NoAccount THEN "" ELSE currency[dst])
  IN
  /\ q.kind = "internal"
  /\ q.pc = "findTo"
  /\ IF res # "ok"
     THEN req' = [req EXCEPT ![r] = Finished(q, res)]
     ELSE req' = [req EXCEPT ![r].toAcc = dst, ![r].pc = "create"]
  /\ UNCHANGED <<balance, currency, txs, testMode, blacklist>>

\* Transaction.create of createInternalTransfer / createExternalTransfer.
CreateTransaction(r) ==
  LET q == req[r] IN
  /\ q.kind \in {"internal", "external"}
  /\ q.pc = "create"
  /\ txs' = Append(txs, NewTransaction(q.bank, q.kind, q.amount, q.cur, q.from,
                                       IF q.kind = "internal" THEN q.toAcc ELSE NoAccount))
  /\ req' = [req EXCEPT ![r].tx = Len(txs) + 1, ![r].pc = "begin"]
  /\ UNCHANGED <<balance, currency, testMode, blacklist>>

\* const t = await Account.sequelize!.transaction()
TransactionOpen(q) == [q EXCEPT !.lock = TRUE]

\* A commit or rollback after which the handler still holds the transaction.
TransactionLeftOpen(q) == q

\* await t.commit() / await t.rollback()
TransactionClosed(q) == [q EXCEPT !.lock = FALSE]

\* updateBalances: the database transaction is opened.
BeginTransaction(r) ==
  LET q == req[r] IN
  /\ q.kind \in {"internal", "external"}
  /\ q.pc = "begin"
  /\ req' = [req EXCEPT ![r] = TransactionOpen([q EXCEPT !.pc = "update"])]
  /\ UNCHANGED <<balance, currency, txs, testMode, blacklist>>

\* updateBalances that debits the source and never credits the destination.
BalancesAfterUpdateNoCredit(bal, fromId, toId, amt, type) ==
  [bal EXCEPT ![fromId] = bal[fromId] - amt]

\* The balances after the committed database transaction of updateBalances:
\* decrement on the source row, increment on the destination row of an
\* internal transfer.  Both are relative UPDATEs on the stored value.
BalancesAfterUpdate(bal, fromId, toId, amt, type) ==
  LET debited == [bal EXCEPT ![fromId] = bal[fromId] - amt] IN
  IF type = "internal" /\ toId # NoAccount
  THEN [debited EXCEPT ![toId] = debited[toId] + amt]
  ELSE debited

\* A rollback that leaves the decrement of the source row in place.
BalancesAfterRollbackDebitKept(bal, fromId, amt) ==
  [bal EXCEPT ![fromId] = bal[fromId] - amt]

\* The balances after t.rollback() in the catch block of updateBalances:
\* nothing the database transaction wrote is kept.
BalancesAfterRollback(bal, fromId, amt) == bal

\* updateBalances: commit, or rollback and TransactionError.
UpdateBalances(r) ==
  LET q == req[r] IN
  /\ q.kind \in {"internal", "external"}
  /\ q.pc = "update"
  /\ \/ /\ balance' = BalancesAfterUpdate(balance, q.from, q.toAcc, q.amount, q.kind)
        /\ req' = [req EXCEPT ![r] = TransactionClosed(
                      [q EXCEPT !.applied = q.applied - q.amount,
                                !.pc = IF q.kind = "internal" THEN "complete" ELSE "verifyBank"])]
     \/ /\ balance' = BalancesAfterRollback(balance, q.from, q.amount)
        /\ req' = [req EXCEPT ![r] = TransactionClosed([q EXCEPT !.pc = "markFailed"])]
  /\ UNCHANGED <<currency, txs, testMode, blacklist>>

\* createInternalTransfer: status COMPLETED after the balances were updated.
CompleteInternal(r) ==
  LET q == req[r] IN
  /\ q.kind = "internal"
  /\ q.pc = "complete"
  /\ txs' = SaveCompleted(q.tx)
  /\ req' = [req EXCEPT ![r] = Finished(q, "")]
  /\ UNCHANGED <<balance, currency, testMode, blacklist>>

\* The catch blocks that record a failed updateBalances on the row.
MarkFailed(r) ==
  LET q == req[r] IN
  /\ q.kind \in {"internal", "external"}
  /\ q.pc = "markFailed"
  /\ txs' = SaveFailed(q.tx, "Failed to update account balances")
  /\ req' = [req EXCEPT ![r] = Finished(q, "BalanceUpdateFailed")]
  /\ UNCHANGED <<balance, currency, testMode, blacklist>>

\* ------------------------------------------------------ outbound gateway
\* verifyBankWithCentralBank as seen by its caller: the mock answer in test
\* mode, otherwise whatever the registry answers ("unreachable" stands for
\* every axios failure, an unknown prefix included).
RegistryAnswers(b) ==
  IF testMode[b] THEN {"active"} ELSE {"active", "inactive", "unreachable"}

\* The kid of the one key a bank publishes at /.well-known/jwks.json:
\* config.bank.prefix.
PublishedKid(b) == <<b>>

\* header.kid of the assertions a bank signs: config.bank.prefix + '300'.
KidOf(b) == <<b, "300">>

\* The key a bank signs with is named after the bank.
SigningKey(b) == b

\* The first three characters of an account number.
PrefixOf(num) == num[1]

\* initiateExternalTransfer up to the registry answer: the own-bank check,
\* then verifyBankWithCentralBank and the isActive check.
InitiateResult(b, toNum, answer) ==
  IF PrefixOf(toNum) = b THEN "OwnBank"
  ELSE IF answer = "unreachable" THEN "RegistryFailed"
  ELSE IF answer = "inactive" THEN "Inactive"
  ELSE "ok"

VerifyDestinationBank(r) ==
  LET q == req[r] IN
  /\ q.kind = "external"
  /\ q.pc = "verifyBank"
  /\ \E answer \in RegistryAnswers(q.bank) :
       LET res == InitiateResult(q.bank, q.to, answer) IN
       req' = [req EXCEPT ![r].pc = IF res = "ok" THEN "post" ELSE "compensate",
                          ![r].err = IF res = "ok" THEN "" ELSE res]
  /\ UNCHANGED <<balance, currency, txs, testMode, blacklist>>

\* The assertion initiateExternalTransfer signs.
SignedAssertion(q) ==
  [kid |-> KidOf(q.bank), signer |-> SigningKey(q.bank),
   accountFrom |-> accountNumber[q.from], accountTo |-> q.to,
   amount |-> q.amount, currency |-> q.cur, iat |-> q.tx]

\* processIncomingTransaction up to its first await: the token is decoded
\* without verification and the source bank is derived from header.kid; a
\* token without kid switches the process to test mode.
ReceiveAssertion(reqs, r, b, token, caller) ==
  [reqs EXCEPT ![r] = [IdleReq EXCEPT !.kind = "inbound", !.pc = "registry", !.bank = b,
                                      !.token = token, !.caller = caller]]

TestModeAfterParse(b, token) ==
  IF token.kid = <<>> THEN [testMode EXCEPT ![b] = TRUE] ELSE testMode

\* A gateway that posts the assertion a second time.
PostsAfterSendWithRetry(n) == n + 2

\* The axios.post calls made so far, after the single axios.post of
\* initiateExternalTransfer.
PostsAfterSend(n) == n + 1

\* The rest of initiateExternalTransfer: the sender's account and name are
\* loaded, the private key is read and the assertion signed (any of which
\* can throw), then axios.post to the destination bank's endpoint: the
\* request reaches the destination deployment, or the connection fails.
PostAssertion(r) ==
  LET q == req[r]
      dest == PrefixOf(q.to)
  IN
  /\ q.kind = "external"
  /\ q.pc = "post"
  /\ \/ \E r2 \in Slots :
          /\ FreeSlot(r2)
          /\ dest \in Banks
          /\ req' = ReceiveAssertion([req EXCEPT ![r].pc = "await",
                                                 ![r].posts = PostsAfterSend(q.posts)],
                                     r2, dest, SignedAssertion(q), r)
          /\ testMode' = TestModeAfterParse(dest, SignedAssertion(q))
     \/ /\ req' = [req EXCEPT ![r].pc = "compensate", ![r].err = "SendFailed",
                              ![r].posts = PostsAfterSend(q.posts)]
        /\ testMode' = testMode
     \/ /\ req' = [req EXCEPT ![r].pc = "compensate", ![r].err = "SignFailed"]
        /\ testMode' = testMode
  /\ UNCHANGED <<balance, currency, txs, blacklist>>

\* The sender waits for the HTTP response: 2xx, non-2xx, or a network error
\* that ends the wait whatever the receiver is doing.
AwaitResponse(r) ==
  LET q == req[r] IN
  /\ q.kind = "external"
  /\ q.pc = "await"
  /\ \/ /\ q.resp = "ok"
        /\ req' = [req EXCEPT ![r].pc = "completeExt"]
     \/ /\ q.resp = "error"
        /\ req' = [req EXCEPT ![r].pc = "compensate", ![r].err = "SendFailed"]
     \/ /\ q.resp = ""
        /\ req' = [req EXCEPT ![r].pc = "compensate", ![r].err = "SendFailed"]
  /\ UNCHANGED <<balance, currency, txs, testMode, blacklist>>

\* createExternalTransfer: status COMPLETED after the positive answer.
CompleteExternal(r) ==
  LET q == req[r] IN
  /\ q.kind = "external"
  /\ q.pc = "completeExt"
  /\ txs' = SaveCompleted(q.tx)
  /\ req' = [req EXCEPT ![r] = Finished(q, "")]
  /\ UNCHANGED <<balance, currency, testMode, blacklist>>

\* A compensation that saves the instance without adding the amount.
CompensatedBalanceNoAmount(snap, amt) == snap

\* The value fromAccount.save() writes after `fromAccount.balance += amount`.
\* decrement() changed the row only (SQLite returns nothing to refresh the
\* instance with), so the instance still holds the balance read by
\* validateAccounts.
CompensatedBalance(snap, amt) == snap + amt

\* The compensation of createExternalTransfer: fromAccount.save() writes the
\* instance's balance over the stored one.
Compensate(r) ==
  LET q == req[r]
      nb == CompensatedBalance(q.snap, q.amount)
  IN
  /\ q.kind = "external"
  /\ q.pc = "compensate"
  /\ balance' = [balance EXCEPT ![q.from] = nb]
  /\ req' = [req EXCEPT ![r].pc = "failExt",
                        ![r].applied = q.applied + (nb - balance[q.from])]
  /\ UNCHANGED <<currency, txs, testMode, blacklist>>

\* createExternalTransfer: status FAILED with the error of the delivery.
FailExternal(r) ==
  LET q == req[r] IN
  /\ q.kind = "external"
  /\ q.pc = "failExt"
  /\ txs' = SaveFailed(q.tx, q.err)
  /\ req' = [req EXCEPT ![r] = Finished(q, q.err)]
  /\ UNCHANGED <<balance, currency, testMode, blacklist>>

\* ------------------------------------------------------- inbound receiver
\* Assertions peers other than the modelled one deliver to the local bank:
\* header.kid (<<>> is a header without kid), destination, currency.
TokenShapes ==
  { <<<<"HENN", "1">>, accountNumber[1], "EUR">>,
    <<<<"HENN", "1">>, accountNumber[1], "USD">>,
    <<<<"HENN", "1">>, UnknownNumber, "EUR">>,
    <<<<>>, accountNumber[1], "EUR">> }

\* Payloads for account 1 with an amount no user transfer has: zero and a
\* negative amount in the account's currency, and half a unit of another
\* currency.
EdgePayloads == { <<"EUR", 0>>, <<"EUR", -AmountStep * Scale>>, <<"USD", Scale \div 2>> }

EnvTokens ==
  { [kid |-> sh[1], signer |-> "HENN", accountFrom |-> <<"HEN", 7>>, accountTo |-> sh[2],
     amount |-> amt, currency |-> sh[3], iat |-> 0] : sh \in TokenShapes, amt \in Amounts \ {0} }
  \cup
  { [kid |-> <<"HENN", "1">>, signer |-> "HENN", accountFrom |-> <<"HEN", 7>>,
     accountTo |-> accountNumber[1], amount |-> p[2], currency |-> p[1], iat |-> 0] :
       p \in EdgePayloads }

\* What the PEM text built by jwkToPem from the n member of a published key
\* decodes to: the public half of a signing key, or nothing usable.
PemKeys == {"HENN", LocalBank, "garbage"}

\* Rates the exchange-rate service may answer with, as numerator/denominator.
Rates == {<<27, 25>>}

\* Math.floor(payload.amount * exchangeRate): the product is cut down to a
\* whole number of currency units.
ConvertedAmount(amt, rate) == ((amt * rate[1]) \div (rate[2] * Scale)) * Scale

\* The HTTP response of an inbound handler reaches the sender that is still
\* waiting for it.
Reply(reqs, caller, answer) ==
  IF caller # 0 /\ reqs[caller].pc = "await" /\ reqs[caller].resp = ""
  THEN [reqs EXCEPT ![caller].resp = answer]
  ELSE reqs

\* processIncomingTransaction throws before any row was created.
Reject(r, e) ==
  Reply([req EXCEPT ![r] = Finished([req[r] EXCEPT !.token = NoToken], e)],
        req[r].caller, "error")

\* A peer bank delivers an assertion to the local bank.
StartInbound(r) ==
  /\ FreeSlot(r)
  /\ \E token \in EnvTokens :
       /\ req' = ReceiveAssertion(req, r, LocalBank, token, 0)
       /\ testMode' = TestModeAfterParse(LocalBank, token)
  /\ UNCHANGED <<balance, currency, txs, blacklist>>

\* What the central bank's registry holds about a prefix: an active bank,
\* an inactive bank, or nothing it can answer with (unknown prefix, registry
\* unreachable).
RegistryRecords == {"active", "inactive", "unreachable"}

\* processIncomingTransaction: verifyBankWithCentralBank throws, or the
\* isActive check of its answer.
SourceBankResult(answer) ==
  IF answer = "unreachable" THEN "RegistryFailed"
  ELSE IF answer = "inactive" THEN "Inactive"
  ELSE "ok"

\* verifyBankWithCentralBank(sourceBankPrefix) and the isActive check: in
\* test mode the answer is the mock's, whatever the registry holds.
VerifySourceBank(r) ==
  LET q == req[r] IN
  /\ q.kind = "inbound"
  /\ q.pc = "registry"
  /\ \E held \in RegistryRecords :
       LET answer == IF testMode[q.bank] THEN "active" ELSE held
           res == SourceBankResult(answer)
       IN IF res = "ok"
          THEN req' = [req EXCEPT ![r].pc = "jwks", ![r].registry = held]
          ELSE req' = Reject(r, res)
  /\ UNCHANGED <<balance, currency, txs, testMode, blacklist>>

\* A verification that accepts every signature once a key was decoded.
VerifySignatureAnyKey(pem, signer) == pem # "garbage"

\* jwt.verify(request.jwt, publicKey, RS256): the signature was made by the
\* private half of the key the PEM text decodes to.
VerifySignature(pem, signer) == pem # "garbage" /\ pem = signer

\* The key-set fetch, the lookup of the key with the token's kid, jwkToPem
\* and jwt.verify.
FetchKeyAndVerify(r) ==
  LET q == req[r] IN
  /\ q.kind = "inbound"
  /\ q.pc = "jwks"
  /\ \/ req' = Reject(r, "JwksFetchFailed")
     \/ req' = Reject(r, "KeyNotFound")
     \/ \E pem \in PemKeys :
          IF VerifySignature(pem, q.token.signer)
          THEN req' = [req EXCEPT ![r].pubKey = pem, ![r].verified = TRUE, ![r].pc = "findAcct"]
          ELSE req' = Reject(r, "InvalidSignature")
  /\ UNCHANGED <<balance, currency, txs, testMode, blacklist>>

\* Account.findOne({ where: { accountNumber: payload.accountTo } })
FindReceivingAccount(r) ==
  LET q == req[r]
      dst == FindByNumber(q.bank, q.token.accountTo)
  IN
  /\ q.kind = "inbound"
  /\ q.pc = "findAcct"
  /\ IF dst = NoAccount
     THEN req' = Reject(r, "ReceivingAccountNotFound")
     ELSE req' = [req EXCEPT ![r].toAcc = dst, ![r].cur = currency[dst], ![r].pc = "createIn"]
  /\ UNCHANGED <<balance, currency, txs, testMode, blacklist>>

\* A transaction model without a validator on the amount.
TransactionAmountValidAny(amt) == TRUE

\* The validator of Transaction.amount: min 0.
TransactionAmountValid(amt) == amt >= 0

\* Transaction.create of processIncomingTransaction: amount and currency of
\* the payload, fromAccountId 0.  The validators of the model run first;
\* the insert can also be refused by the database (fromAccountId 0
\* references no account row).
CreateInboundTransaction(r) ==
  LET q == req[r] IN
  /\ q.kind = "inbound"
  /\ q.pc = "createIn"
  /\ \/ /\ TransactionAmountValid(q.token.amount)
        /\ txs' = Append(txs, NewTransaction(q.bank, "external", q.token.amount,
                                             q.token.currency, NoAccount, q.toAcc))
        /\ req' = [req EXCEPT ![r].tx = Len(txs) + 1, ![r].amount = q.token.amount,
                              ![r].pc = "credit"]
     \/ /\ txs' = txs
        /\ req' = Reject(r, "CreateFailed")
  /\ UNCHANGED <<balance, currency, testMode, blacklist>>

\* The conversion when the currencies differ, then
\* receivingAccount.increment('balance', { by: payload.amount }).
CreditReceiver(r) ==
  LET q == req[r] IN
  /\ q.kind = "inbound"
  /\ q.pc = "credit"
  /\ \/ \E rate \in Rates :
          LET amt == IF q.token.currency # q.cur THEN ConvertedAmount(q.amount, rate)
                     ELSE q.amount
          IN
          /\ balance' = [balance EXCEPT ![q.toAcc] = balance[q.toAcc] + amt]
          /\ req' = [req EXCEPT ![r].amount = amt, ![r].applied = q.applied + amt,
                                ![r].pc = "completeIn"]
     \/ /\ q.token.currency # q.cur
        /\ balance' = balance
        /\ req' = [req EXCEPT ![r].pc = "failIn", ![r].err = "RateFailed"]
     \/ /\ balance' = balance
        /\ req' = [req EXCEPT ![r].pc = "failIn", ![r].err = "CreditFailed"]
  /\ UNCHANGED <<currency, txs, testMode, blacklist>>

\* transaction.status = COMPLETED; save()
CompleteInbound(r) ==
  LET q == req[r] IN
  /\ q.kind = "inbound"
  /\ q.pc = "completeIn"
  /\ txs' = SaveCompleted(q.tx)
  /\ req' = [req EXCEPT ![r].pc = "respond"]
  /\ UNCHANGED <<balance, currency, testMode, blacklist>>

\* The receiver's name is loaded and returned, or loading it fails.
Respond(r) ==
  LET q == req[r] IN
  /\ q.kind = "inbound"
  /\ q.pc = "respond"
  /\ \/ req' = Reply([req EXCEPT ![r] = Finished(q, "")], q.caller, "ok")
     \/ req' = [req EXCEPT ![r].pc = "failIn", ![r].err = "ReceiverLookupFailed"]
  /\ UNCHANGED <<balance, currency, txs, testMode, blacklist>>

\* The catch block after the row was created: status FAILED, rethrow.
FailInbound(r) ==
  LET q == req[r] IN
  /\ q.kind = "inbound"
  /\ q.pc = "failIn"
  /\ txs' = SaveFailed(q.tx, q.err)
  /\ req' = Reply([req EXCEPT ![r] = Finished(q, q.err)], q.caller, "error")
  /\ UNCHANGED <<balance, currency, testMode, blacklist>>

\* ------------------------------------------------- currency of an account
Currencies == {"EUR", "USD"}

\* The account numbers users ask a currency change for.
CurrencyChangeNumbers == {accountNumber[1], UnknownNumber}

\* The rates the exchange-rate service of bank.service.ts answers with.
BankRates == {<<27, 25>>, <<2, 3>>}

\* updateAccountCurrency: the lookup and the same-currency check.
CurrencyChangeResult(acc, oldCur, newCur) ==
  IF acc = NoAccount THEN "AccountNotFound"
  ELSE IF oldCur = newCur THEN "SameCurrency"
  ELSE "ok"

\* convertAmount: Number((amount * rate).toFixed(2)), the product rounded
\* to the nearest hundredth.
RoundedAmount(amt, rate) ==
  LET mag == IF amt < 0 THEN -amt ELSE amt
      rounded == (2 * mag * rate[1] + rate[2]) \div (2 * rate[2])
  IN IF amt < 0 THEN -rounded ELSE rounded

\* An update that writes the currency and leaves the balance column.
AccountAfterUpdateCurrencyOnly(cur, bal, a, newCur, newBal) ==
  [currency |-> [cur EXCEPT ![a] = newCur], balance |-> bal]

\* account.update({ currency: newCurrency, balance: newBalance }): one
\* UPDATE statement that sets both columns of the row.
AccountAfterUpdate(cur, bal, a, newCur, newBal) ==
  [currency |-> [cur EXCEPT ![a] = newCur], balance |-> [bal EXCEPT ![a] = newBal]]

\* A user asks for a currency change: updateAccountCurrency up to its
\* first call of the exchange-rate service.
StartCurrencyChange(r) ==
  /\ FreeSlot(r)
  /\ \E num \in CurrencyChangeNumbers, nc \in Currencies :
       LET acc == FindByNumber(LocalBank, num)
           q == [IdleReq EXCEPT !.kind = "currency", !.bank = LocalBank, !.from = acc,
                                !.to = num, !.newCur = nc]
           res == CurrencyChangeResult(acc, IF acc = NoAccount THEN "" ELSE currency[acc], nc)
       IN req' = [req EXCEPT ![r] =
                    IF res # "ok" THEN Finished(q, res)
                    ELSE [q EXCEPT !.snap = balance[acc], !.cur = currency[acc], !.pc = "rate"]]
  /\ UNCHANGED <<balance, currency, txs, testMode, blacklist>>

\* const { rate } = await bankService.getExchangeRate(oldCurrency, newCurrency)
FetchRate(r) ==
  LET q == req[r] IN
  /\ q.kind = "currency"
  /\ q.pc = "rate"
  /\ \/ \E rate \in BankRates : req' = [req EXCEPT ![r].rate = rate, ![r].pc = "convert"]
     \/ req' = [req EXCEPT ![r] = Finished(q, "RateFailed")]
  /\ UNCHANGED <<balance, currency, txs, testMode, blacklist>>

\* convertAmount(account.balance, oldCurrency, newCurrency): the rate is
\* fetched again and applied to the balance the instance holds.
ConvertBalance(r) ==
  LET q == req[r] IN
  /\ q.kind = "currency"
  /\ q.pc = "convert"
  /\ \/ \E rate \in BankRates :
          req' = [req EXCEPT ![r].used = rate, ![r].newBal = RoundedAmount(q.snap, rate),
                             ![r].pc = "write"]
     \/ req' = [req EXCEPT ![r] = Finished(q, "RateFailed")]
  /\ UNCHANGED <<balance, currency, txs, testMode, blacklist>>

\* account.update: the validators run first (balance: min 0), then the row
\* is written.
WriteCurrency(r) ==
  LET q == req[r]
      after == AccountAfterUpdate(currency, balance, q.from, q.newCur, q.newBal)
  IN
  /\ q.kind = "currency"
  /\ q.pc = "write"
  /\ IF q.newBal < 0
     THEN /\ UNCHANGED <<balance, currency, blacklist>>
          /\ req' = [req EXCEPT ![r] = Finished(q, "UpdateFailed")]
     ELSE /\ currency' = after.currency
          /\ balance' = after.balance
          /\ req' = [req EXCEPT ![r] = Finished(q, "")]
  /\ UNCHANGED <<txs, testMode, blacklist>>

\* ------------------------------------------------------- account creation
\* The currencies users ask a new account in.
CreateAccountCurrencies == {"EUR", "USD", "eur"}

\* accountData.currency.toUpperCase()
UpperCase(c) == IF c = "eur" THEN "EUR" ELSE c

\* createAccount up to Account.create: the generated account number is
\* looked up and no row has it.
StartCreateAccount(r) ==
  /\ FreeSlot(r)
  /\ ~Exists(NewAccount)
  /\ \E c \in CreateAccountCurrencies :
       req' = [req EXCEPT ![r] = [IdleReq EXCEPT !.kind = "createAccount", !.bank = LocalBank,
                                                 !.from = NewAccount, !.newCur = c,
                                                 !.pc = "createRow"]]
  /\ UNCHANGED <<balance, currency, txs, testMode, blacklist>>

\* Account.create with the upper-cased currency and the initial balance;
\* accountNumber is unique, so a row another call inserted under the same
\* number makes the insert fail.
CreateAccountRow(r) ==
  LET q == req[r]
      cur == UpperCase(q.newCur)
  IN
  /\ q.kind = "createAccount"
  /\ q.pc = "createRow"
  /\ IF Exists(q.from)
     THEN /\ UNCHANGED <<balance, currency, blacklist>>
          /\ req' = [req EXCEPT ![r] = Finished(q, "UniqueViolation")]
     ELSE /\ currency' = [currency EXCEPT ![q.from] = cur]
          /\ balance' = [balance EXCEPT ![q.from] = InitialBalance(cur)]
          /\ req' = [req EXCEPT ![r] = Finished(q, "")]
  /\ UNCHANGED <<txs, testMode, blacklist>>

\* ------------------------------------------------------------------ logout
\* addToBlacklist: blacklist.set(token, ...)
BlacklistAfterAdd(listed, tok) == listed \cup {tok}

\* POST /users/logout at the local bank: a token verifyToken accepts is
\* added to the blacklist; if verifyToken throws the answer is the same and
\* nothing is added.
Logout(r) ==
  /\ FreeSlot(r)
  /\ \E tok \in AccessTokens :
       /\ blacklist' = IF tok.valid
                       THEN [blacklist EXCEPT ![LocalBank] = BlacklistAfterAdd(@, tok)]
                       ELSE blacklist
       /\ req' = [req EXCEPT ![r] = Finished([IdleReq EXCEPT !.kind = "logout",
                                                             !.bank = LocalBank,
                                                             !.access = tok], "")]
  /\ UNCHANGED <<balance, currency, txs, testMode>>

Next ==
  \E r \in Slots :
    \/ StartInternal(r)
    \/ StartExternal(r)
    \/ StartSimplified(r)
    \/ Route(r)
    \/ FindDestination(r)
    \/ CreateTransaction(r)
    \/ BeginTransaction(r)
    \/ UpdateBalances(r)
    \/ CompleteInternal(r)
    \/ MarkFailed(r)
    \/ VerifyDestinationBank(r)
    \/ PostAssertion(r)
    \/ AwaitResponse(r)
    \/ CompleteExternal(r)
    \/ Compensate(r)
    \/ FailExternal(r)
    \/ StartInbound(r)
    \/ VerifySourceBank(r)
    \/ FetchKeyAndVerify(r)
    \/ FindReceivingAccount(r)
    \/ CreateInboundTransaction(r)
    \/ CreditReceiver(r)
    \/ CompleteInbound(r)
    \/ Respond(r)
    \/ FailInbound(r)
    \/ StartCurrencyChange(r)
    \/ FetchRate(r)
    \/ ConvertBalance(r)
    \/ WriteCurrency(r)
    \/ StartCreateAccount(r)
    \/ CreateAccountRow(r)
    \/ Logout(r)

Spec == Init /\ [][Next]_vars

\* The steps a handler takes without waiting for another party: database
\* calls of the bank's own SQLite file, and the continuation of an HTTP call
\* whose response has arrived.  The calls to the registry, to a key-set
\* endpoint, to the exchange-rate service and to the destination bank are
\* made with axios defaults (no timeout), so nothing makes them end; the
\* registry client involves no such call when the gateway refuses its own
\* prefix or when the process is in test mode.
LocalSteps(r) ==
  \/ Route(r)
  \/ (VerifyDestinationBank(r) /\ (PrefixOf(req[r].to) = req[r].bank \/ testMode[req[r].bank]))
  \/ (VerifySourceBank(r) /\ testMode[req[r].bank])
  \/ FindDestination(r)
  \/ CreateTransaction(r)
  \/ BeginTransaction(r)
  \/ UpdateBalances(r)
  \/ CompleteInternal(r)
  \/ MarkFailed(r)
  \/ (AwaitResponse(r) /\ req[r].resp # "")
  \/ CompleteExternal(r)
  \/ Compensate(r)
  \/ FailExternal(r)
  \/ FindReceivingAccount(r)
  \/ CreateInboundTransaction(r)
  \/ (CreditReceiver(r) /\ req[r].token.currency = req[r].cur)
  \/ CompleteInbound(r)
  \/ Respond(r)
  \/ FailInbound(r)
  \/ WriteCurrency(r)
  \/ CreateAccountRow(r)

\* The Node event loop runs every continuation that is ready.
FairSpec == Spec /\ \A r \in Slots : WF_vars(LocalSteps(r))

\* ------------------------------------------------------------ properties
TransferKinds == {"internal", "external"}

\* Handler r takes the step.
Steps(r) == req'[r].pc # req[r].pc

\* Errors createExternalTransfer reports after the local debit was applied.
DeliveryErrors == {"OwnBank", "RegistryFailed", "Inactive", "SignFailed", "SendFailed"}

\* C1: in every reachable state no account balance is negative.
C1_BalanceNonNegative == \A a \in Accounts : balance[a] >= 0

\* C2: the step that applies an accepted internal transfer of amount A from
\* X to Y takes exactly A from X, adds exactly A to Y, keeps their sum and
\* every other balance, X and Y being distinct accounts; and an internal
\* transfer that returned without error has its transaction completed.
C2_InternalTransferZeroSum ==
  /\ [][\A r \in Slots :
          (req[r].kind = "internal" /\ req[r].pc = "update" /\ req'[r].pc = "complete") =>
            LET X == req[r].from
                Y == req[r].toAcc
                A == req[r].amount
            IN /\ X # Y
               /\ balance'[X] = balance[X] - A
               /\ balance'[Y] = balance[Y] + A
               /\ balance'[X] + balance'[Y] = balance[X] + balance[Y]
               /\ \A a \in Accounts \ {X, Y} : balance'[a] = balance[a]]_vars
  /\ [](\A r \in Slots :
          (req[r].kind = "internal" /\ req[r].pc = "done" /\ req[r].err = "") =>
            /\ req[r].tx \in 1..Len(txs)
            /\ txs[req[r].tx].status = "completed"
            /\ req[r].applied = -req[r].amount)

C2_Witness ==
  \E r \in Slots :
    /\ req[r].kind = "internal" /\ req[r].pc = "done" /\ req[r].err = ""
    /\ txs[req[r].tx].status = "completed"
    /\ req[r].amount > 0

\* C3: an outbound transfer that failed after the local debit has left the
\* source balance as it was (what the call wrote adds up to zero) and its
\* transaction is failed.
C3_CompensationRestoresBalance ==
  \A r \in Slots :
    (req[r].kind = "external" /\ req[r].pc = "done" /\ req[r].err \in DeliveryErrors) =>
      /\ req[r].applied = 0
      /\ txs[req[r].tx].status = "failed"

\* C4: an inbound handler writes a transaction row or a balance only after
\* the signature verified against the key of the claimed bank, and a handler
\* rejected for its signature or for a missing key has created no row and
\* changed no balance.
C4_NoMutationBeforeVerification ==
  /\ [][\A r \in Slots :
          (req[r].kind = "inbound" /\ Steps(r) /\ (balance' # balance \/ txs' # txs)) =>
            /\ req[r].pubKey \in PemKeys \ {"garbage"}
            /\ req[r].pubKey = req[r].token.signer]_vars
  /\ [](\A r \in Slots :
          (req[r].kind = "inbound" /\ req[r].err \in {"InvalidSignature", "KeyNotFound"}) =>
            /\ req[r].tx = 0
            /\ req[r].applied = 0)

C4_Witness ==
  \E r \in Slots :
    /\ req[r].kind = "inbound" /\ req[r].pc = "done" /\ req[r].err = "InvalidSignature"
    /\ req[r].tx = 0
    /\ txs = <<>>
    /\ \A a \in Accounts : balance[a] = InitialBalance(InitCurrency[a])

\* C5: the same assertion, handled twice, credits the destination at most once.
C5_InboundIdempotent ==
  \A r1, r2 \in Slots :
    (/\ r1 # r2
     /\ req[r1].kind = "inbound" /\ req[r2].kind = "inbound"
     /\ req[r1].token # NoToken
     /\ req[r1].token = req[r2].token) =>
      ~(req[r1].applied > 0 /\ req[r2].applied > 0)

C7_StatusChangesOnce ==
  [][/\ \A i \in 1..Len(txs) :
          /\ i <= Len(txs')
          /\ txs[i].status # "pending" => txs'[i].status = txs[i].status
     /\ \A i \in (Len(txs) + 1)..Len(txs') : txs'[i].status = "pending"]_vars

\* C8: in every state, a transfer's balance change is applied exactly when
\* its transaction is completed.
C8_BalanceAndStatusAtomic ==
  \A r \in Slots :
    (req[r].kind = "internal" /\ req[r].tx # 0) =>
      ((req[r].applied # 0) <=> (txs[req[r].tx].status = "completed"))

\* C9: a transfer submitted for more than the balance of its (existing)
\* source account is rejected with InsufficientFunds by the step that
\* receives it, which changes no balance and creates no row; no handler
\* rejected with InsufficientFunds has a row or has written a balance.
C9_InsufficientFundsRejected ==
  /\ [][\A r \in Slots :
          (/\ req[r].kind = "none" /\ req'[r].kind \in TransferKinds
           /\ FindByPk(LocalBank, req'[r].from) # NoAccount
           /\ req'[r].amount > balance[req'[r].from]) =>
            /\ req'[r].pc = "done"
            /\ ErrorClass(req'[r].err) = "InsufficientFundsError"
            /\ req'[r].tx = 0
            /\ balance' = balance
            /\ txs' = txs]_vars
  /\ [](\A r \in Slots :
          (req[r].kind \in TransferKinds /\ req[r].err = "InsufficientFunds") =>
            /\ req[r].pc = "done"
            /\ req[r].tx = 0
            /\ req[r].applied = 0)

C9_Witness ==
  \E r \in Slots :
    /\ req[r].kind \in TransferKinds /\ req[r].pc = "done"
    /\ req[r].err = "InsufficientFunds"
    /\ req[r].amount > 0
    /\ req[r].tx = 0

\* C10: an internal transfer whose source currency (as read from the source
\* account) differs from the currency of the destination account is rejected
\* with a ValidationError by the step that looks the destination up, which
\* changes no balance and creates no row; a handler rejected for a currency
\* mismatch has no row and has written no balance.
C10_CurrencyMismatchRejected ==
  /\ [][\A r \in Slots :
          (/\ req[r].kind = "internal" /\ req[r].pc = "findTo" /\ Steps(r)
           /\ FindByNumber(req[r].bank, req[r].to) # NoAccount
           /\ req[r].cur # currency[FindByNumber(req[r].bank, req[r].to)]) =>
            /\ req'[r].pc = "done"
            /\ ErrorClass(req'[r].err) = "ValidationError"
            /\ req'[r].tx = 0
            /\ balance' = balance
            /\ txs' = txs]_vars
  /\ [](\A r \in Slots :
          (req[r].kind = "internal" /\ req[r].err = "CurrencyMismatch") =>
            /\ req[r].pc = "done"
            /\ req[r].tx = 0
            /\ req[r].applied = 0)

C10_Witness ==
  \E r \in Slots :
    /\ req[r].kind = "internal" /\ req[r].pc = "done"
    /\ req[r].err = "CurrencyMismatch"
    /\ currency[req[r].from] # currency[3]
    /\ req[r].tx = 0

\* C11: an outbound transfer the registry rejects (destination bank inactive,
\* unknown or not resolvable) has, at the moment of the rejection and after
\* it, no transaction row and has written nothing to the source balance.
C11_InactiveRejectedBeforeDebit ==
  \A r \in Slots :
    (req[r].kind = "external" /\ req[r].err \in {"Inactive", "RegistryFailed"}) =>
      /\ req[r].tx = 0
      /\ req[r].applied = 0

\* C12: an inbound assertion whose currency differs from the currency of
\* the destination account, once completed, has credited the converted
\* amount, and its transaction row carries the destination account's
\* currency and the amount that was credited.
C12_InboundConversionRecorded ==
  \A r \in Slots :
    (/\ req[r].kind = "inbound" /\ req[r].tx # 0
     /\ txs[req[r].tx].status = "completed"
     /\ req[r].token.currency # currency[txs[req[r].tx].toAccountId]) =>
      /\ \E rate \in Rates : req[r].applied = ConvertedAmount(req[r].token.amount, rate)
      /\ txs[req[r].tx].currency = currency[txs[req[r].tx].toAccountId]
      /\ txs[req[r].tx].amount = req[r].applied

\* The change handler r was meant to make to the balance of account a: the
\* debit and the credit of a completed internal transfer, the debit of an
\* outbound transfer (cancelled by its compensation when the delivery
\* failed), the credit of an inbound assertion.
ExpectedChange(r, a) ==
  LET q == req[r] IN
  CASE q.kind = "internal" /\ q.tx # 0 /\ q.err = "" ->
         (IF q.from = a THEN -q.amount ELSE 0)
           + (IF txs[q.tx].toAccountId = a THEN q.amount ELSE 0)
    [] q.kind = "external" /\ q.tx # 0 /\ q.err = "" ->
         IF q.from = a THEN -q.amount ELSE 0
    [] q.kind = "inbound" /\ q.tx # 0 /\ q.applied > 0 ->
         IF txs[q.tx].toAccountId = a THEN q.applied ELSE 0
    [] OTHER -> 0

\* Handler r has written to the balance of account a.
Touches(r, a) ==
  LET q == req[r] IN
  CASE q.kind = "internal" /\ q.tx # 0 /\ q.err = "" ->
         a \in {q.from, txs[q.tx].toAccountId}
    [] q.kind = "external" /\ q.tx # 0 /\ q.err \in DeliveryErrors \cup {""} -> q.from = a
    [] q.kind = "inbound" /\ q.tx # 0 /\ q.applied > 0 -> txs[q.tx].toAccountId = a
    [] OTHER -> FALSE

RECURSIVE SumExpected(_, _)
SumExpected(S, a) ==
  IF S = {} THEN 0
  ELSE LET r == CHOOSE x \in S : TRUE IN ExpectedChange(r, a) + SumExpected(S \ {r}, a)

\* C13: when every handler has finished, an account that two or more
\* handlers wrote to holds its initial balance plus the credits and minus
\* the debits they applied.
C13_BalanceMutationsSerialized ==
  (\A r \in Slots : req[r].pc \in {"idle", "done"}) =>
    \A a \in Accounts :
      Cardinality({r \in Slots : Touches(r, a)}) >= 2 =>
        balance[a] = InitialBalance(InitCurrency[a]) + SumExpected(Slots, a)

\* C14: the transaction of every outbound transfer, once created, is
\* eventually completed or failed.
C14_EveryTransactionTerminates ==
  \A r \in Slots :
    (req[r].kind = "external" /\ req[r].tx # 0)
      ~> (req[r].tx # 0 /\ txs[req[r].tx].status # "pending")

\* C15: when updateBalances of an internal transfer fails, the failing step
\* leaves every balance and every row as they were, the handler has written
\* no balance, and it ends with its transaction failed and the error message
\* recorded on the row.
C15_FailedUpdateLeavesLedger ==
  /\ [][\A r \in Slots :
          (req[r].kind = "internal" /\ req[r].pc = "update" /\ req'[r].pc = "markFailed") =>
            /\ balance' = balance
            /\ txs' = txs]_vars
  /\ [](\A r \in Slots :
          /\ (req[r].kind = "internal" /\ req[r].pc = "markFailed") => req[r].applied = 0
          /\ (req[r].kind = "internal" /\ req[r].err = "BalanceUpdateFailed") =>
               /\ req[r].pc = "done"
               /\ req[r].applied = 0
               /\ req[r].tx \in 1..Len(txs)
               /\ txs[req[r].tx].status = "failed"
               /\ txs[req[r].tx].errorMessage = "Failed to update account balances")

C15_Witness ==
  \E r \in Slots :
    /\ req[r].kind = "internal" /\ req[r].pc = "done"
    /\ req[r].err = "BalanceUpdateFailed"
    /\ txs[req[r].tx].status = "failed"
    /\ txs[req[r].tx].errorMessage # ""
    /\ balance[req[r].from] = InitialBalance(InitCurrency[req[r].from])

C18_RoutedByLocalPrefix ==
  [][\A r \in Slots :
       (req[r].kind = "simplified" /\ req[r].pc = "route" /\ req'[r].kind # "simplified") =>
         ((req'[r].kind = "internal") <=> (PrefixOf(req[r].to) = req[r].bank))]_vars

\* C19: an outbound transfer rejected because its destination is at the
\* sending bank has no transaction row and has written no balance.
C19_OwnPrefixRejectedFirst ==
  \A r \in Slots :
    (req[r].kind = "external" /\ req[r].err = "OwnBank") =>
      /\ req[r].tx = 0
      /\ req[r].applied = 0

\* Errors of an internal transfer found by its validation.
ValidationRejections ==
  {"SourceNotFound", "DestinationNotFound", "SameAccount", "AmountNotPositive"}

\* C20: an internal transfer whose source account is missing or whose amount
\* is not positive is rejected by its first step, and one whose destination
\* is unknown or is the source itself by the destination lookup; the
\* rejecting step changes no balance and no row (the error it reports for
\* the source itself is the currency mismatch when the currency of the
\* account was changed since the handler read it), and a handler rejected
\* for any of these reasons has no row and has written no balance.
C20_ValidationRejectsWithoutChange ==
  /\ [][\A r \in Slots :
          (/\ req[r].kind \in {"none", "simplified"} /\ req'[r].kind = "internal"
           /\ \/ FindByPk(req'[r].bank, req'[r].from) = NoAccount
              \/ req'[r].amount <= 0) =>
            /\ req'[r].pc = "done"
            /\ req'[r].err # ""
            /\ req'[r].tx = 0
            /\ balance' = balance
            /\ txs' = txs]_vars
  /\ [][\A r \in Slots :
          (/\ req[r].kind = "internal" /\ req[r].pc = "findTo" /\ Steps(r)
           /\ FindByNumber(req[r].bank, req[r].to) \in {NoAccount, req[r].from}) =>
            /\ req'[r].pc = "done"
            /\ req'[r].err \in ValidationRejections \cup {"CurrencyMismatch"}
            /\ req'[r].tx = 0
            /\ balance' = balance
            /\ txs' = txs]_vars
  /\ [](\A r \in Slots :
          (req[r].kind = "internal" /\ req[r].err \in ValidationRejections) =>
            /\ req[r].pc = "done"
            /\ req[r].tx = 0
            /\ req[r].applied = 0)

C20_Witness ==
  \E r \in Slots :
    /\ req[r].kind = "internal" /\ req[r].pc = "done"
    /\ req[r].err = "AmountNotPositive"
    /\ req[r].amount < 0
    /\ req[r].tx = 0
    /\ txs = <<>>

\* C21: an inbound transaction that is failed has its reason recorded and
\* has left the destination balance as it was.
C21_InboundFailedWithoutCredit ==
  \A r \in Slots :
    (req[r].kind = "inbound" /\ req[r].tx # 0 /\ txs[req[r].tx].status = "failed") =>
      /\ txs[req[r].tx].errorMessage # ""
      /\ req[r].applied = 0

C23_RegistryModeFixed == [][testMode' = testMode]_vars

\* C24: the kid in the header of every assertion a bank of this code base
\* has sent is the kid of the key that bank publishes in its key set.
C24_KidMatchesPublishedKey ==
  \A r \in Slots :
    (req[r].kind = "inbound" /\ req[r].token.signer \in Banks) =>
      req[r].token.kid = PublishedKid(req[r].token.signer)

\* C25: the currency recorded on an internal transaction row is, in the
\* step that creates the row, the currency of its source account and of its
\* destination account.
C25_InternalRowCurrency ==
  [][\A r \in Slots :
       (req[r].kind = "internal" /\ req[r].pc = "create" /\ Steps(r)) =>
         /\ txs'[req'[r].tx].currency = currency[req[r].from]
         /\ txs'[req'[r].tx].currency = currency[req[r].toAcc]]_vars

\* C26: a step that changes the currency of an existing account is the
\* write of a currency change of that account and sets, in the same step,
\* the balance to the converted balance, and no other step of a currency
\* change writes a balance; a currency change that ended with an error has
\* changed neither the currency nor the balance of any account in any of
\* its steps.
C26_CurrencyAndBalanceTogether ==
  /\ [][\A a \in Accounts :
          (Exists(a) /\ currency'[a] # currency[a]) =>
            \E r \in Slots :
              /\ req[r].kind = "currency" /\ req[r].pc = "write" /\ req[r].from = a
              /\ currency'[a] = req[r].newCur
              /\ balance'[a] = req[r].newBal
              /\ req'[r].pc = "done" /\ req'[r].err = ""]_vars
  /\ [][\A r \in Slots :
          ((req[r].kind = "currency" \/ req'[r].kind = "currency") /\ Steps(r)) =>
            \/ /\ req[r].pc = "write" /\ req'[r].err = ""
               /\ currency'[req[r].from] = req[r].newCur
               /\ balance'[req[r].from] = req[r].newBal
               /\ \A a \in Accounts \ {req[r].from} :
                    currency'[a] = currency[a] /\ balance'[a] = balance[a]
            \/ /\ (req[r].pc # "write" \/ req'[r].err # "")
               /\ currency' = currency
               /\ balance' = balance]_vars

C26_Witness ==
  \E r \in Slots :
    /\ req[r].kind = "currency" /\ req[r].pc = "done" /\ req[r].err = ""
    /\ currency[req[r].from] = req[r].newCur
    /\ req[r].newCur # InitCurrency[req[r].from]
    /\ balance[req[r].from] = req[r].newBal
    /\ req[r].newBal # SeedBalance * Scale

\* C27: the rate a finished currency change reports is the rate its new
\* balance was computed with.
C27_SingleRateSnapshot ==
  \A r \in Slots :
    (req[r].kind = "currency" /\ req[r].pc = "done" /\ req[r].err = "") =>
      req[r].rate = req[r].used

\* amount * rate cut to whole minor units, toward zero.
TruncatedAmount(amt, rate) ==
  LET mag == IF amt < 0 THEN -amt ELSE amt
      cut == (mag * rate[1]) \div rate[2]
  IN IF amt < 0 THEN -cut ELSE cut

\* C28: the balance a currency change computes, and the amount an inbound
\* credit converts to, is amount * rate truncated toward zero to a whole
\* number of minor units.
C28_ConversionsTruncate ==
  \A r \in Slots :
    /\ (req[r].kind = "currency" /\ req[r].pc = "write") =>
         req[r].newBal = TruncatedAmount(req[r].snap, req[r].used)
    /\ (req[r].kind = "inbound" /\ req[r].pc = "completeIn"
        /\ req[r].token.currency # req[r].cur) =>
         \E rate \in Rates : req[r].amount = TruncatedAmount(req[r].token.amount, rate)

\* The status codes the inbound endpoint is to answer with, per outcome.
ExpectedInboundStatus(e) ==
  CASE e = "" -> {200}
    [] e \in {"KeyNotFound", "InvalidSignature", "Inactive"} -> {400}
    [] e = "JwksFetchFailed" -> {400, 502}
    [] e = "ReceivingAccountNotFound" -> {404}
    [] OTHER -> {500, 502}

\* C29: the inbound endpoint answers a processed assertion with 200, one
\* that cannot be verified with 400, one for an unknown destination account
\* with 404, and a local failure or a failure of the registry with 500 or
\* 502.
C29_InboundStatusCodes ==
  \A r \in Slots :
    (req[r].kind = "inbound" /\ req[r].pc = "done") =>
      req[r].http \in ExpectedInboundStatus(req[r].err)

\* C30: the step that inserts an account row gives it the seed balance when
\* the currency of the row is EUR and a balance of zero otherwise.
C30_SeedBalanceOnlyForEUR ==
  [][\A a \in Accounts :
       (~Exists(a) /\ currency'[a] # "") =>
         balance'[a] = IF currency'[a] = "EUR" THEN SeedBalance * Scale ELSE 0]_vars

C30_Witness ==
  \E r \in Slots :
    /\ req[r].kind = "createAccount" /\ req[r].pc = "done" /\ req[r].err = ""
    /\ currency[req[r].from] = "USD"
    /\ balance[req[r].from] = 0

NetworkPcs == {"verifyBank", "post", "await", "registry", "jwks", "rate", "convert"}

\* C32: a handler holds the database transaction of updateBalances only
\* between its begin and its commit or rollback, so none holds it at a
\* network call; an outbound transfer at the registry verification or at
\* the delivery has its debit committed; and a transfer about to compensate
\* holds no transaction and has the error its network call returned with.
C32_NoNetworkCallUnderLock ==
  \A r \in Slots :
    /\ req[r].lock => (req[r].kind \in TransferKinds /\ req[r].pc = "update")
    /\ req[r].pc \in NetworkPcs => ~req[r].lock
    /\ (req[r].kind = "external" /\ req[r].pc \in {"verifyBank", "post", "await"}) =>
         /\ req[r].applied = -req[r].amount
         /\ txs[req[r].tx].status = "pending"
    /\ (req[r].kind = "external" /\ req[r].pc = "compensate") =>
         /\ ~req[r].lock
         /\ req[r].err \in DeliveryErrors

C32_Witness ==
  \E r \in Slots :
    /\ req[r].kind = "external" /\ req[r].pc = "await"
    /\ req[r].posts = 1
    /\ ~req[r].lock
    /\ req[r].applied = -req[r].amount
    /\ balance[req[r].from] = InitialBalance(currency[req[r].from]) - req[r].amount

\* C33: a transfer request of the API that names the account of another
\* user is answered 403 by its first step, which changes no balance and no
\* row; and a handler of an API request that has a row, has written a
\* balance or is still running works on an account of its caller.
C33_OnlyOwnerDebits ==
  /\ [][\A r \in Slots :
          (/\ req[r].kind = "none" /\ req'[r].kind = "simplified"
           /\ req'[r].user # 0 /\ req'[r].from # NoAccount
           /\ ownerOf[req'[r].from] # req'[r].user) =>
            /\ req'[r].pc = "done"
            /\ req'[r].err = "Forbidden"
            /\ req'[r].http = 403
            /\ req'[r].tx = 0
            /\ balance' = balance
            /\ txs' = txs]_vars
  /\ [](\A r \in Slots :
          (/\ req[r].access # NoAccess /\ req[r].kind # "logout"
           /\ (req[r].tx # 0 \/ req[r].applied # 0 \/ req[r].pc # "done")) =>
            /\ req[r].from # NoAccount
            /\ ownerOf[req[r].from] = req[r].user)

C33_Witness ==
  \E r \in Slots :
    /\ req[r].kind = "simplified" /\ req[r].pc = "done"
    /\ req[r].err = "Forbidden" /\ req[r].http = 403
    /\ req[r].user # 0 /\ ownerOf[req[r].from] # req[r].user
    /\ txs = <<>>

\* C34: a request that presents a token logout has put on the blacklist
\* is rejected by the authenticate middleware.
C34_LoggedOutTokenRejected ==
  [][\A r \in Slots :
       (/\ req[r].kind = "none" /\ req'[r].kind = "simplified"
        /\ req'[r].access \in blacklist[req'[r].bank]) =>
         /\ req'[r].pc = "done"
         /\ req'[r].err = "Unauthorized"]_vars

\* The sum, over the first n transaction rows, of the amounts of the
\* completed ones that credit account a minus those that debit it.
RECURSIVE CompletedNet(_, _)
CompletedNet(n, a) ==
  IF n = 0 THEN 0
  ELSE LET t == txs[n]
           credit == IF t.status = "completed" /\ t.toAccountId = a THEN t.amount ELSE 0
           debit == IF t.status = "completed" /\ t.fromAccountId = a THEN t.amount ELSE 0
       IN CompletedNet(n - 1, a) + credit - debit

\* C35: when no handler is running and no account has had its currency
\* changed, the balance of every account is its seed balance plus the
\* amounts of the completed transactions that credit it minus the amounts
\* of the completed transactions that debit it.
C35_LedgerReconciles ==
  (/\ InFlight = {}
   /\ \A r \in Slots : ~(req[r].kind = "currency" /\ req[r].err = "")) =>
    \A a \in Accounts :
      balance[a] = (IF Exists(a) THEN InitialBalance(currency[a]) ELSE 0)
                   + CompletedNet(Len(txs), a)

\* C37: a transaction row has completedAt set exactly when its status is
\* completed, and has an error message only when its status is failed.
C37_StatusFieldsAgree ==
  \A i \in 1..Len(txs) :
    /\ txs[i].completedAt <=> txs[i].status = "completed"
    /\ txs[i].errorMessage # "" => txs[i].status = "failed"

\* C38: the balance a currency change writes is the conversion of the
\* balance the account has when it is written.
C38_CurrencyChangeKeepsMutations ==
  [][\A r \in Slots :
       (req[r].kind = "currency" /\ req[r].pc = "write" /\ Steps(r) /\ req'[r].err = "") =>
         balance'[req[r].from] = RoundedAmount(balance[req[r].from], req[r].used)]_vars

\* C36: no step of an inbound handler lowers a balance or changes the
\* balance of an account other than its receiving account; what an inbound
\* handler has written to its receiving account is never negative; and an
\* assertion with a negative amount gets no row and writes nothing.
C36_InboundNeverDecreases ==
  /\ [][\A r \in Slots :
          (req'[r].kind = "inbound" /\ Steps(r)) =>
            \A a \in Accounts :
              /\ balance'[a] >= balance[a]
              /\ a # req[r].toAcc => balance'[a] = balance[a]]_vars
  /\ [](\A r \in Slots :
          req[r].kind = "inbound" =>
            /\ req[r].applied >= 0
            /\ req[r].token.amount < 0 => (req[r].tx = 0 /\ req[r].applied = 0))

C36_Witness ==
  \E r \in Slots :
    /\ req[r].kind = "inbound" /\ req[r].pc = "done" /\ req[r].err = ""
    /\ req[r].token.amount \in {0, Scale \div 2}
    /\ req[r].applied = 0
    /\ txs[req[r].tx].status = "completed"
====
